---- MODULE Spec2Model ----
(***************************************************************************)
(* Model of the Yara-based plugins of src/plugins/yara/plugins_yara.cpp:   *)
(* YaraPlugin::scan / YaraPlugin::_load_rules and the four concrete        *)
(* plugins (ClamavPlugin, CompilerDetectionPlugin, PEiDPlugin,             *)
(* SuspiciousStringsPlugin) registered at the end of the file.             *)
(*                                                                         *)
(* The yara wrapper (yara::Yara, yara::Match) and the Result class are     *)
(* declared in headers that are not part of the modelled file; they are    *)
(* modelled from the specification (PatternEngine and Finding).            *)
(*                                                                         *)
(* std::string values that end up in Result's information list are         *)
(* sequences of character codes, so that operator+ is \o and the order of  *)
(* std::set<std::string> is the lexicographic order on codes.  Strings     *)
(* that are only stored and compared for equality (rule file names,        *)
(* summaries, metadata field names, levels) are TLA+ strings.              *)
(***************************************************************************)
EXTENDS Integers, Sequences, FiniteSets, TLC

(***************************************************************************)
(* Bounds                                                                  *)
(***************************************************************************)
\* total number of analyze calls started, over all plugins
MaxCalls == 3

(***************************************************************************)
(* Character strings                                                       *)
(***************************************************************************)
\* "\t"
Tab == <<9>>
\* " String(s) found:"
StringsFoundSuffix == <<32, 83, 116, 114, 105, 110, 103, 40, 115, 41, 32, 102, 111, 117, 110, 100, 58>>
\* "EICAR-Test"
EicarTest == <<69, 73, 67, 65, 82, 45, 84, 101, 115, 116>>
\* "Trojan.Agent"
TrojanAgent == <<84, 114, 111, 106, 97, 110, 46, 65, 103, 101, 110, 116>>
\* "UPX"
Upx == <<85, 80, 88>>
\* "UPX0"
Upx0 == <<85, 80, 88, 48>>
\* "UPX1"
Upx1 == <<85, 80, 88, 49>>
\* "VMware"
VMware == <<86, 77, 119, 97, 114, 101>>
\* "vmtoolsd"
Vmtoolsd == <<118, 109, 116, 111, 111, 108, 115, 100>>
\* "VBoxService"
VBoxService == <<86, 66, 111, 120, 83, 101, 114, 118, 105, 99, 101>>
\* "MSVC"
Msvc == <<77, 83, 86, 67>>
\* "MinGW"
MinGW == <<77, 105, 110, 71, 87>>
\* "ASPack"
ASPack == <<65, 83, 80, 97, 99, 107>>
\* ""
EmptyString == << >>

\* std::string::compare(a, b) < 0 : lexicographic order on character codes
RECURSIVE StrLess(_, _)
StrLess(a, b) ==
    IF Len(b) = 0 THEN FALSE
    ELSE IF Len(a) = 0 THEN TRUE
    ELSE IF Head(a) # Head(b) THEN Head(a) < Head(b)
    ELSE StrLess(Tail(a), Tail(b))

(***************************************************************************)
(* The plugins                                                             *)
(***************************************************************************)
Detectors == {"clamav", "compilers", "peid", "strings"}

\* ClamavPlugin: constructor argument and the arguments analyze passes to scan
ClamavPlugin ==
    [rule_file |-> "yara_rules/clamav.yara",
     summary |-> "Matching ClamAV signature(s):",
     level |-> "MALICIOUS",
     meta_field_name |-> "signature",
     show_strings |-> FALSE]

CompilerDetectionPlugin ==
    [rule_file |-> "yara_rules/compilers.yara",
     summary |-> "Matching compiler(s):",
     level |-> "NO_OPINION",
     meta_field_name |-> "description",
     show_strings |-> FALSE]

PEiDPlugin ==
    [rule_file |-> "yara_rules/peid.yara",
     summary |-> "PEiD Signature:",
     level |-> "SUSPICIOUS",
     meta_field_name |-> "packer_name",
     show_strings |-> FALSE]

SuspiciousStringsPlugin ==
    [rule_file |-> "yara_rules/suspicious_strings.yara",
     summary |-> "Strings found in the binary may indicate undesirable behavior:",
     level |-> "SUSPICIOUS",
     meta_field_name |-> "description",
     show_strings |-> TRUE]

\* the plugin instance registered under each id
Plugin(d) ==
    CASE d = "clamav" -> ClamavPlugin
      [] d = "compilers" -> CompilerDetectionPlugin
      [] d = "peid" -> PEiDPlugin
      [] d = "strings" -> SuspiciousStringsPlugin

RuleFiles == {Plugin(d).rule_file : d \in Detectors}

(***************************************************************************)
(* The pattern engine (yara wrapper) and the files it works on             *)
(***************************************************************************)
\* the value of an engine's current rules before any successful load
NoRules == "<no rules>"

\* the PE files handed to analyze
Targets == {"clean.exe", "one.exe", "many.exe"}

\* match records: metadata of the matching rule and the matched strings in
\* the order the engine found them (the same string may be found twice)
MatchEicar == [meta |-> [signature |-> EicarTest], found |-> <<Upx0>>]
MatchTrojan == [meta |-> [signature |-> TrojanAgent], found |-> << >>]
MatchMsvc == [meta |-> [description |-> Msvc], found |-> << >>]
MatchMinGW == [meta |-> [description |-> MinGW], found |-> <<MinGW>>]
MatchPeidUpx == [meta |-> [packer_name |-> Upx, description |-> Upx0], found |-> <<Upx1>>]
MatchPeidASPack == [meta |-> [packer_name |-> ASPack], found |-> << >>]
MatchUpx == [meta |-> [description |-> Upx], found |-> <<Upx1, Upx0, Upx1>>]
MatchVM == [meta |-> [description |-> VMware], found |-> <<Vmtoolsd, VBoxService, Vmtoolsd, VMware>>]

\* what the rules of each rule file match in each target, in engine order
FileMatches(rules, target) ==
    IF target = "one.exe" THEN
        CASE rules = ClamavPlugin.rule_file -> <<MatchEicar>>
          [] rules = CompilerDetectionPlugin.rule_file -> <<MatchMsvc>>
          [] rules = PEiDPlugin.rule_file -> <<MatchPeidUpx>>
          [] rules = SuspiciousStringsPlugin.rule_file -> <<MatchUpx>>
          [] OTHER -> << >>
    ELSE IF target = "many.exe" THEN
        CASE rules = ClamavPlugin.rule_file -> <<MatchTrojan, MatchEicar, MatchTrojan>>
          [] rules = CompilerDetectionPlugin.rule_file -> <<MatchMinGW, MatchMsvc>>
          [] rules = PEiDPlugin.rule_file -> <<MatchPeidASPack, MatchPeidASPack>>
          [] rules = SuspiciousStringsPlugin.rule_file -> <<MatchVM, MatchUpx, MatchVM, MatchVM>>
          [] OTHER -> << >>
    ELSE << >>

\* yara::Yara() : a freshly constructed engine holds no compiled rules
NewYara == [current |-> NoRules]

\* load_rules that compiles the rule file again on every call
load_rules_Recompile(eng, rule_filename, fileOk) ==
    IF fileOk
    THEN [ok |-> TRUE, engine |-> [current |-> rule_filename], compiled |-> TRUE]
    ELSE [ok |-> FALSE, engine |-> [current |-> NoRules], compiled |-> TRUE]

\* yara::Yara::load_rules(rule_filename); fileOk says whether the rule file
\* can be compiled now.  Rules already loaded from the same file are reused
\* and the compile operation is not invoked; a failed compilation leaves the
\* engine without these rules.
load_rules(eng, rule_filename, fileOk) ==
    IF eng.current = rule_filename
    THEN [ok |-> TRUE, engine |-> eng, compiled |-> FALSE]
    ELSE IF fileOk
    THEN [ok |-> TRUE, engine |-> [current |-> rule_filename], compiled |-> TRUE]
    ELSE [ok |-> FALSE, engine |-> [current |-> NoRules], compiled |-> TRUE]

\* yara::Yara::scan_file(path) : the matches of the engine's current rules
scan_file(eng, path) == FileMatches(eng.current, path)

\* yara::Match::operator[](name) : the metadata value, "" when absent
MetaValue(match, name) ==
    IF name \in DOMAIN match.meta THEN match.meta[name] ELSE EmptyString

\* yara::Match::get_found_strings()
get_found_strings(match) == {match.found[i] : i \in DOMAIN match.found}

(***************************************************************************)
(* Result                                                                  *)
(***************************************************************************)
\* a summary that was never set
NoSummary == "<null>"

\* new Result : lowest level, no summary, no information
NewResult == [level |-> "NO_OPINION", summary |-> NoSummary, information |-> << >>]

set_level(r, level) == [r EXCEPT !.level = level]
set_summary(r, summary) == [r EXCEPT !.summary = summary]
add_information(r, line) == [r EXCEPT !.information = Append(@, line)]

(***************************************************************************)
(* YaraPlugin                                                              *)
(***************************************************************************)
VARIABLES
    engine,     \* engine[e] : the yara::Yara object e
    pc,         \* pc[d] : where plugin d's analyze call stands
    target,     \* target[d] : the PE of d's current (or last) call
    m,          \* m[d] : the local yara::matches of d's current (or last) call
    res,        \* res[d] : the Result of d's current (or last) call
    diag,       \* diag[d] : what that call wrote to PRINT_ERROR
    ok,         \* ok[d] : what _load_rules returned in that call
    ncalls,     \* ncalls[d] : number of analyze calls started on d
    loads,      \* loads[d] : number of times d called _engine.load_rules
    compiles,   \* compiles[d] : number of rule compilations d's calls caused
    retry,      \* retry[d] : d's call before that one failed to load
    repeat,     \* repeat[d] : d had already scanned that call's PE
    first       \* first[d][t] : the Result of d's first scan of PE t

vars == <<engine, pc, target, m, res, diag, ok, ncalls, loads, compiles, retry,
          repeat, first>>

\* no target / no diagnostic yet
None == "<none>"

\* no Result yet
NoResult == [level |-> None, summary |-> None, information |-> << >>]

\* plugin d has started an analyze call
Called(d) == target[d] # None

\* plugin d has returned from an analyze call and has not started another
Returned(d) == Called(d) /\ pc[d] = "idle"

\* YaraPlugin::_rule_file, set by the constructor
RuleFile(d) == Plugin(d).rule_file

\* a static _engine: one engine shared by all plugin objects
EngineOf_Static(d) == "clamav"

\* yara::Yara _engine : a member, one engine per plugin object
EngineOf(d) == d

\* PRINT_ERROR << "Could not load " << _rule_file << "!"
CouldNotLoad(rule_file) == "Could not load " \o rule_file \o "!"

\* _load_rules that returns false without printing the error
_load_rules_Silent(d, fileOk) ==
    LET r == load_rules(engine[EngineOf(d)], RuleFile(d), fileOk)
    IN  [ok |-> r.ok, engine |-> r.engine, asked |-> TRUE, compiled |-> r.compiled,
         diag |-> None]

\* _load_rules that remembers a failure and does not ask the engine again
_load_rules_CacheFailure(d, fileOk) ==
    LET r == load_rules(engine[EngineOf(d)], RuleFile(d), fileOk)
    IN  IF Called(d) /\ ~ok[d]
        THEN [ok |-> FALSE, engine |-> engine[EngineOf(d)], asked |-> FALSE,
              compiled |-> FALSE, diag |-> CouldNotLoad(RuleFile(d))]
        ELSE IF ~r.ok
        THEN [ok |-> FALSE, engine |-> r.engine, asked |-> TRUE,
              compiled |-> r.compiled, diag |-> CouldNotLoad(RuleFile(d))]
        ELSE [ok |-> TRUE, engine |-> r.engine, asked |-> TRUE,
              compiled |-> r.compiled, diag |-> None]

\* _load_rules that remembers a success and does not ask the engine again
_load_rules_CacheSuccess(d, fileOk) ==
    LET r == load_rules(engine[EngineOf(d)], RuleFile(d), fileOk)
    IN  IF Called(d) /\ ok[d]
        THEN [ok |-> TRUE, engine |-> engine[EngineOf(d)], asked |-> FALSE,
              compiled |-> FALSE, diag |-> None]
        ELSE IF ~r.ok
        THEN [ok |-> FALSE, engine |-> r.engine, asked |-> TRUE,
              compiled |-> r.compiled, diag |-> CouldNotLoad(RuleFile(d))]
        ELSE [ok |-> TRUE, engine |-> r.engine, asked |-> TRUE,
              compiled |-> r.compiled, diag |-> None]

\* YaraPlugin::_load_rules: asks the engine on every call
_load_rules(d, fileOk) ==
    LET r == load_rules(engine[EngineOf(d)], RuleFile(d), fileOk)
    IN  IF ~r.ok
        THEN [ok |-> FALSE, engine |-> r.engine, asked |-> TRUE,
              compiled |-> r.compiled, diag |-> CouldNotLoad(RuleFile(d))]
        ELSE [ok |-> TRUE, engine |-> r.engine, asked |-> TRUE,
              compiled |-> r.compiled, diag |-> None]

\* iteration over a std::set<std::string>: ascending, each element once
RECURSIVE SetIteration(_)
SetIteration(S) ==
    IF S = {} THEN << >>
    ELSE LET least == CHOOSE x \in S : \A y \in S : x = y \/ StrLess(x, y)
         IN  <<least>> \o SetIteration(S \ {least})

\* iteration over the found strings as a vector: found order, duplicates kept
FoundOrder_Vector(match) == match.found

\* the strings of one match, in the order the inner loop of scan visits them
FoundOrder(match) == SetIteration(get_found_strings(match))

\* inner loop of scan: one add_information("\t" + *it) per found string
RECURSIVE AddFound(_, _)
AddFound(r, found) ==
    IF found = << >> THEN r
    ELSE AddFound(add_information(r, Tab \o Head(found)), Tail(found))

\* loop body with the show_strings test inverted
AddMatch_Inverted(r, match, meta_field_name, show_strings) ==
    IF show_strings
    THEN add_information(r, MetaValue(match, meta_field_name))
    ELSE AddFound(add_information(r, MetaValue(match, meta_field_name) \o StringsFoundSuffix),
                  FoundOrder(match))

\* body of the loop over the matches in scan
AddMatch(r, match, meta_field_name, show_strings) ==
    IF ~show_strings
    THEN add_information(r, MetaValue(match, meta_field_name))
    ELSE AddFound(add_information(r, MetaValue(match, meta_field_name) \o StringsFoundSuffix),
                  FoundOrder(match))

\* the matches with every match that equals an earlier one left out
RECURSIVE Unique(_)
Unique(ms) ==
    IF ms = << >> THEN << >>
    ELSE LET init == Unique(SubSeq(ms, 1, Len(ms) - 1))
             last == ms[Len(ms)]
         IN  IF \E i \in DOMAIN init : init[i] = last THEN init ELSE Append(init, last)

\* a loop over the distinct matches only
MatchOrder_Unique(ms) == Unique(ms)

\* the order in which the outer loop of scan visits the matches
MatchOrder(ms) == ms

\* the loop over the matches in scan
RECURSIVE AddMatches(_, _, _, _)
AddMatches(r, ms, meta_field_name, show_strings) ==
    IF ms = << >> THEN r
    ELSE AddMatches(AddMatch(r, Head(ms), meta_field_name, show_strings),
                    Tail(ms), meta_field_name, show_strings)

\* the test on the matches written as m.size() >= 0
HasMatches_Always(ms) == Len(ms) >= 0

\* whether scan fills in the Result: if (m.size() > 0)
HasMatches(ms) == Len(ms) > 0

\* scan, from the if on the matches to the return
FillResult(r, ms, summary, level, meta_field_name, show_strings) ==
    IF HasMatches(ms)
    THEN AddMatches(set_summary(set_level(r, level), summary),
                    MatchOrder(ms), meta_field_name, show_strings)
    ELSE r

\* a Result kept in the plugin and reused by every call
ScanResult_Member(d) == IF Called(d) THEN res[d] ELSE NewResult

\* pResult res = pResult(new Result) : a new Result in every call
ScanResult(d) == NewResult

\* scan that goes on to scan_file whatever _load_rules returned
AfterLoad_Ignored(loaded) == "loaded"

\* where scan goes after _load_rules: return res, or on to scan_file
AfterLoad(loaded) == IF loaded THEN "loaded" ELSE "idle"

RECURSIVE SumCalls(_)
SumCalls(S) ==
    IF S = {} THEN 0
    ELSE LET d == CHOOSE x \in S : TRUE IN ncalls[d] + SumCalls(S \ {d})

\* number of analyze calls started, over all plugins
TotalCalls == SumCalls(Detectors)

TypeOK ==
    /\ engine \in [Detectors -> [current : RuleFiles \cup {NoRules}]]
    /\ pc \in [Detectors -> {"idle", "loaded", "scanned"}]
    /\ target \in [Detectors -> Targets \cup {None}]
    /\ ok \in [Detectors -> BOOLEAN]
    /\ ncalls \in [Detectors -> 0..MaxCalls]
    /\ loads \in [Detectors -> 0..MaxCalls]
    /\ compiles \in [Detectors -> 0..MaxCalls]
    /\ retry \in [Detectors -> BOOLEAN]
    /\ repeat \in [Detectors -> BOOLEAN]
    /\ TotalCalls <= MaxCalls

Init ==
    /\ engine = [e \in Detectors |-> NewYara]
    /\ pc = [d \in Detectors |-> "idle"]
    /\ target = [d \in Detectors |-> None]
    /\ m = [d \in Detectors |-> << >>]
    /\ res = [d \in Detectors |-> NoResult]
    /\ diag = [d \in Detectors |-> None]
    /\ ok = [d \in Detectors |-> FALSE]
    /\ ncalls = [d \in Detectors |-> 0]
    /\ loads = [d \in Detectors |-> 0]
    /\ compiles = [d \in Detectors |-> 0]
    /\ retry = [d \in Detectors |-> FALSE]
    /\ repeat = [d \in Detectors |-> FALSE]
    /\ first = [d \in Detectors |-> [t \in Targets |-> NoResult]]

\* analyze(pe) -> scan, up to and including the test of _load_rules()
ScanLoad(d, pe, fileOk) ==
    /\ pc[d] = "idle"
    /\ TotalCalls < MaxCalls
    /\ LET lr == _load_rules(d, fileOk)
       IN  /\ engine' = [engine EXCEPT ![EngineOf(d)] = lr.engine]
           /\ diag' = [diag EXCEPT ![d] = lr.diag]
           /\ ok' = [ok EXCEPT ![d] = lr.ok]
           /\ loads' = [loads EXCEPT ![d] = IF lr.asked THEN @ + 1 ELSE @]
           /\ compiles' = [compiles EXCEPT ![d] = IF lr.compiled THEN @ + 1 ELSE @]
           /\ pc' = [pc EXCEPT ![d] = AfterLoad(lr.ok)]
    /\ res' = [res EXCEPT ![d] = ScanResult(d)]
    /\ target' = [target EXCEPT ![d] = pe]
    /\ m' = [m EXCEPT ![d] = << >>]
    /\ ncalls' = [ncalls EXCEPT ![d] = @ + 1]
    /\ retry' = [retry EXCEPT ![d] = Called(d) /\ ~ok[d]]
    /\ repeat' = [repeat EXCEPT ![d] = first[d][pe] # NoResult]
    /\ UNCHANGED first

\* yara::matches m = _engine.scan_file(*pe.get_path())
ScanFile(d) ==
    /\ pc[d] = "loaded"
    /\ m' = [m EXCEPT ![d] = scan_file(engine[EngineOf(d)], target[d])]
    /\ pc' = [pc EXCEPT ![d] = "scanned"]
    /\ UNCHANGED <<engine, target, res, diag, ok, ncalls, loads, compiles, retry,
                 repeat, first>>

\* the rest of scan: fill in the Result from the matches and return it
ScanReturn(d) ==
    /\ pc[d] = "scanned"
    /\ LET r == FillResult(res[d], m[d], Plugin(d).summary, Plugin(d).level,
                           Plugin(d).meta_field_name, Plugin(d).show_strings)
       IN  /\ res' = [res EXCEPT ![d] = r]
           /\ first' = [first EXCEPT ![d][target[d]] = IF @ = NoResult THEN r ELSE @]
    /\ pc' = [pc EXCEPT ![d] = "idle"]
    /\ UNCHANGED <<engine, target, m, diag, ok, ncalls, loads, compiles, retry, repeat>>

Next ==
    \/ \E d \in Detectors, pe \in Targets, fileOk \in BOOLEAN : ScanLoad(d, pe, fileOk)
    \/ \E d \in Detectors : ScanFile(d)
    \/ \E d \in Detectors : ScanReturn(d)

Spec == Init /\ [][Next]_vars

(***************************************************************************)
(* Properties                                                              *)
(***************************************************************************)
\* the Result of a call that found nothing to report
EmptyFinding == [level |-> "NO_OPINION", summary |-> NoSummary, information |-> << >>]

\* the distinct strings found by one match
DistinctFound(match) == {match.found[i] : i \in DOMAIN match.found}

\* number of information lines one match contributes
GroupLen(d, match) ==
    IF Plugin(d).show_strings THEN 1 + Cardinality(DistinctFound(match)) ELSE 1

\* number of information lines contributed by the matches before the i-th
RECURSIVE Offset(_, _, _)
Offset(d, ms, i) ==
    IF i <= 1 THEN 0 ELSE Offset(d, ms, i - 1) + GroupLen(d, ms[i - 1])

\* the Result of a call of plugin d on PE t that runs alone on a new plugin
\* object, when loading the rules succeeds (loaded) or fails
Alone(d, t, loaded) ==
    IF loaded
    THEN FillResult(NewResult, FileMatches(Plugin(d).rule_file, t), Plugin(d).summary,
                    Plugin(d).level, Plugin(d).meta_field_name, Plugin(d).show_strings)
    ELSE NewResult

\* C1: when rule loading fails in an analyze call, the call returns at once
\* with an empty Result (lowest level, no summary, no information) and the
\* error "Could not load <rule file>!" has been printed.
C1_LoadFailureEmptyFinding ==
    \A d \in Detectors :
        (Called(d) /\ ~ok[d]) =>
            /\ pc[d] = "idle"
            /\ res[d] = EmptyFinding
            /\ diag[d] = "Could not load " \o Plugin(d).rule_file \o "!"

C1_Witness ==
    \E d \in Detectors : Returned(d) /\ ~ok[d] /\ ncalls[d] >= 1

\* C2: a returned Result of a scan with zero matches has the lowest level, no
\* summary and no information; a returned Result with a summary set or a
\* level above the lowest comes from a scan with at least one match.
C2_NoMatchNeutralFinding ==
    \A d \in Detectors :
        (Returned(d) /\ ok[d]) =>
            /\ (Len(m[d]) = 0 => res[d] = EmptyFinding)
            /\ ((res[d].summary # NoSummary \/ res[d].level # "NO_OPINION")
                    => Len(m[d]) >= 1)

C2_Witness ==
    \E d \in Detectors : Returned(d) /\ ok[d] /\ Len(m[d]) = 0

\* C3: a plugin without show_strings whose scan returned n >= 1 matches
\* returns its own level and summary and exactly n information lines, the
\* i-th being the configured metadata value of the i-th match; ClamAV on a
\* file with the single signature "EICAR-Test" returns MALICIOUS and
\* information = ["EICAR-Test"].
C3_FieldValuePerMatch ==
    /\ \A d \in Detectors :
        (Returned(d) /\ ok[d] /\ ~Plugin(d).show_strings /\ Len(m[d]) >= 1) =>
            /\ res[d].level = Plugin(d).level
            /\ res[d].summary = Plugin(d).summary
            /\ Len(res[d].information) = Len(m[d])
            /\ \A i \in 1..Len(m[d]) :
                   res[d].information[i] = m[d][i].meta[Plugin(d).meta_field_name]
    /\ (Returned("clamav") /\ ok["clamav"] /\ target["clamav"] = "one.exe") =>
           res["clamav"] = [level |-> "MALICIOUS",
                            summary |-> "Matching ClamAV signature(s):",
                            information |-> <<EicarTest>>]

C3_Witness ==
    /\ Returned("clamav") /\ ok["clamav"] /\ target["clamav"] = "one.exe"
    /\ m["clamav"] = <<MatchEicar>>
    /\ res["clamav"].information = <<EicarTest>>

\* C4: with show_strings, every match contributes the line
\* "<field value> String(s) found:" followed by one line "\t<string>" per
\* distinct found string, in ascending order and without duplicates, and
\* nothing else; description "UPX" with found strings UPX1, UPX0, UPX1 gives
\* ["UPX String(s) found:", "\tUPX0", "\tUPX1"].
C4_ShowStringsGroups ==
    /\ \A d \in Detectors :
        (Returned(d) /\ ok[d] /\ Plugin(d).show_strings) =>
            LET info == res[d].information
                ms == m[d]
            IN  /\ Len(info) = Offset(d, ms, Len(ms) + 1)
                /\ \A i \in 1..Len(ms) :
                    LET o == Offset(d, ms, i)
                        k == Cardinality(DistinctFound(ms[i]))
                    IN  /\ info[o + 1] = ms[i].meta[Plugin(d).meta_field_name] \o StringsFoundSuffix
                        /\ \A j \in 1..k :
                            /\ Head(info[o + 1 + j]) = 9
                            /\ Tail(info[o + 1 + j]) \in DistinctFound(ms[i])
                        /\ \A j \in 1..(k - 1) :
                            StrLess(Tail(info[o + 1 + j]), Tail(info[o + 2 + j]))
    /\ (Returned("strings") /\ ok["strings"] /\ target["strings"] = "one.exe") =>
           res["strings"].information = <<Upx \o StringsFoundSuffix, <<9>> \o Upx0, <<9>> \o Upx1>>

C4_Witness ==
    /\ Returned("strings") /\ ok["strings"] /\ target["strings"] = "one.exe"
    /\ m["strings"] = <<MatchUpx>>
    /\ Len(res["strings"].information) = 3

\* C5: the information lines are the lines of the first match, then those of
\* the second, and so on in the order the engine returned the matches; equal
\* matches each contribute their own, equal, lines.
C5_MatchesInEngineOrder ==
    \A d \in Detectors :
        (Returned(d) /\ ok[d]) =>
            LET info == res[d].information
                ms == m[d]
                Lines(match) ==
                    AddMatch(NewResult, match, Plugin(d).meta_field_name,
                             Plugin(d).show_strings).information
            IN  /\ Len(info) = Offset(d, ms, Len(ms) + 1)
                /\ \A i \in 1..Len(ms) :
                       SubSeq(info, Offset(d, ms, i) + 1, Offset(d, ms, i + 1)) = Lines(ms[i])

C5_Witness ==
    \E d \in Detectors :
        /\ Returned(d) /\ ok[d] /\ Len(m[d]) >= 3
        /\ \E i, j \in 1..Len(m[d]) : i < j /\ m[d][i] = m[d][j]
        /\ Len(res[d].information) >= 3

\* C6: a call of a plugin on a PE it has scanned before returns the same
\* Result (level, summary, information) as its first scan of that PE.
C6_RepeatedAnalyzeSameFinding ==
    \A d \in Detectors :
        (Returned(d) /\ ok[d]) => res[d] = first[d][target[d]]

C6_Witness ==
    \E d \in Detectors :
        Returned(d) /\ ok[d] /\ repeat[d] /\ res[d].information # << >>

C8_IndependentDetectors ==
    /\ [](\A d \in Detectors :
            /\ pc[d] = "scanned" => m[d] = FileMatches(Plugin(d).rule_file, target[d])
            /\ Returned(d) => res[d] = Alone(d, target[d], ok[d]))
    /\ [][\A e \in Detectors :
            engine'[e] # engine[e] => ncalls'[e] = ncalls[e] + 1]_vars

\* two plugins are both between scan_file and return, each with its matches
C8_Witness ==
    \E d, o \in Detectors :
        /\ d # o
        /\ pc[d] = "scanned" /\ Len(m[d]) >= 1
        /\ pc[o] = "scanned" /\ Len(m[o]) >= 1

\* C9: scan_file is invoked only in a call whose _load_rules returned true and
\* on an engine that holds the plugin's rules; a call whose loading failed
\* never gets to scan_file.
C9_ScanOnlyAfterLoad ==
    /\ [](\A d \in Detectors : pc[d] # "idle" => ok[d])
    /\ [][\A d \in Detectors :
            (pc[d] = "loaded" /\ pc'[d] = "scanned") =>
                (ok[d] /\ engine[d].current = Plugin(d).rule_file)]_vars

C9_Witness ==
    \E d \in Detectors : pc[d] = "scanned" /\ ok[d] /\ Len(m[d]) >= 1

\* C10: a call that follows a call whose loading failed asks the engine to
\* load the rule file again and the engine compiles it again; if that fails too the call returns an empty
\* Result, and if it succeeds the call goes on to scan the PE and returns the
\* Result derived from the matches of the plugin's rules in that PE.
C10_FailureNotCached ==
    /\ [][\A d \in Detectors :
            (Called(d) /\ ~ok[d] /\ ncalls'[d] = ncalls[d] + 1) =>
                /\ loads'[d] = loads[d] + 1
                /\ compiles'[d] = compiles[d] + 1
                /\ ok'[d] => pc'[d] = "loaded"
                /\ ~ok'[d] => (pc'[d] = "idle" /\ res'[d] = EmptyFinding)]_vars
    /\ [](\A d \in Detectors :
            (Returned(d) /\ retry[d] /\ ok[d]) =>
                /\ Len(m[d]) = Len(FileMatches(Plugin(d).rule_file, target[d]))
                /\ Len(m[d]) >= 1 =>
                       (res[d].level = Plugin(d).level /\ res[d].summary = Plugin(d).summary
                        /\ Len(res[d].information) >= Len(m[d])))

C10_Witness ==
    \E d \in Detectors :
        Returned(d) /\ retry[d] /\ ok[d] /\ res[d].information # << >>

====
